---- MODULE Spec2Model ----
(***************************************************************************)
(* MCPLink: the MCP client (src/clients/mcp_client/client.py) that bridges *)
(* the Gemini API to the tools of an MCP server                            *)
(* (src/servers/terminal_server/terminal_server.py).                       *)
(*                                                                         *)
(* Two specifications:                                                     *)
(*   Spec          main(): construction, connect_to_server, chat_loop,     *)
(*                 process_query (one action per step of a turn), cleanup. *)
(*   SpecTranslate convert_mcp_tools_to_gemini / clean_schema applied to   *)
(*                 tool lists drawn from a bounded set of JSON schemas.    *)
(*                                                                         *)
(* Text is modelled as a sequence of characters, so that "\n".join is a    *)
(* real concatenation.  JSON values are tagged: Dict(m) is a Python dict,  *)
(* Str(s) any non-dict value.                                              *)
(***************************************************************************)
EXTENDS Integers, Sequences, FiniteSets, TLC

VARIABLES
    pc,                     \* position of the program (main / connect / chat loop / turn)
    client,                 \* TRUE once MCPClient() has returned (client.py:223)
    exit_stack,             \* self.exit_stack: the contexts entered, in order
    open,                   \* resources (transport, session) currently open
    cleanups,               \* number of times cleanup() has run
    mcp_tools,              \* response.tools: the ToolDescriptor objects as they are now
    fetched_tools,          \* what list_tools returned, before anything touched it
    function_declarations,  \* self.function_declarations
    turn,                   \* number of process_query calls started
    query,                  \* the query of the current turn
    response,               \* the local variable `response` of process_query
    candidates,             \* the list the outer for-loop iterates (first response)
    ci,                     \* index of the current candidate
    pi,                     \* index of the current part
    function_response,      \* the payload built at client.py:121-125
    final_text,             \* the list final_text
    trace,                  \* the calls issued in this turn, in order (LLM and tool)
    responses,              \* the LLM responses received in this turn, in order
    outcome                 \* how the last turn ended: returned string or exception

vars == <<pc, client, exit_stack, open, cleanups, mcp_tools, fetched_tools,
          function_declarations, turn, query, response, candidates, ci, pi,
          function_response, final_text, trace, responses, outcome>>

connVars == <<client, exit_stack, open, cleanups>>
toolVars == <<mcp_tools, fetched_tools, function_declarations>>
turnVars == <<turn, query, response, candidates, ci, pi, function_response,
              final_text, trace, responses, outcome>>

(***************************************************************************)
(* Bounds of the model.                                                    *)
(***************************************************************************)
MaxDepth == 2        \* nesting depth of the generated JSON schemas
MaxTools == 2        \* tools in a translated tool list (SpecTranslate)
MaxCandidates == 2   \* candidates in the first LLM response
MaxParts == 2        \* parts in the first LLM response, over all candidates
MaxTurns == 2        \* queries processed by one run of the chat loop

(***************************************************************************)
(* JSON values and schemas.                                                *)
(***************************************************************************)
Dict(m) == [kind |-> "dict", map |-> m]
Str(s) == [kind |-> "str", val |-> s]
EmptyMap == [k \in {} |-> Str("")]
IsDict(x) == x.kind = "dict"

\* dict.pop(key, None): the dict without that key
Pop(m, key) == [k \in DOMAIN m \ {key} |-> m[k]]

\* client.py:186-195.  schema.pop and the item assignment act on the argument
\* object itself and `return schema` returns that same object: the value computed
\* here is both the return value and the new content of the argument.
RECURSIVE clean_schema(_)
clean_schema(schema) ==
    IF IsDict(schema)
    THEN LET m == Pop(schema.map, "title")
         IN  IF "properties" \in DOMAIN m /\ IsDict(m["properties"])
             THEN Dict([m EXCEPT !["properties"] =
                          Dict([key \in DOMAIN @.map |-> clean_schema(@.map[key])])])
             ELSE Dict(m)
    ELSE schema

\* types.FunctionDeclaration / types.Tool built at client.py:205-211
FunctionDeclaration(name, description, parameters) ==
    [name |-> name, description |-> description, parameters |-> parameters]
Tool(decls) == [function_declarations |-> decls]

\* client.py:198-214: the returned gemini_tools
convert_mcp_tools_to_gemini(tools) ==
    [i \in 1..Len(tools) |->
        Tool(<<FunctionDeclaration(tools[i].name, tools[i].description,
                                   clean_schema(tools[i].inputSchema))>>)]

\* client.py:203: clean_schema(tool.inputSchema) works on the descriptor's own
\* schema object, so this is what the descriptors hold once the loop is over
ToolsAfterConvert(tools) ==
    [i \in 1..Len(tools) |-> [tools[i] EXCEPT !.inputSchema = clean_schema(@)]]

ToolDescriptor(name, description, schema) ==
    [name |-> name, description |-> description, inputSchema |-> schema]

(***************************************************************************)
(* Bounded input sets for the translation.                                 *)
(***************************************************************************)
TitleEntry == "title" :> Str("T")

\* a non-mapping schema, a property schema, a property schema with a title
LeafSchemas ==
    {Str("string"),
     Dict("type" :> Str("string")),
     Dict(TitleEntry @@ ("type" :> Str("string")))}

\* object schemas of nesting depth <= d: with or without a title; with no
\* children, a malformed (non-dict) "properties", a "properties" dict of one
\* property ("a", or a property that is itself named "title") or of both, or
\* an "items" sub-schema
RECURSIVE Schemas(_)
Schemas(d) ==
    IF d = 0 THEN LeafSchemas
    ELSE LET sub == Schemas(d - 1)
             heads == {EmptyMap, TitleEntry}
             children ==
                 {EmptyMap, "properties" :> Str("bad")}
                 \cup {"properties" :> Dict(p :> s) : p \in {"a", "title"}, s \in sub}
                 \cup {"properties" :> Dict(("a" :> s) @@ ("title" :> s)) : s \in sub}
                 \cup {"items" :> s : s \in sub}
         IN  sub \cup {Dict(h @@ ("type" :> Str("object")) @@ c) :
                          h \in heads, c \in children}

\* what FastMCP publishes for run_command(command: str)
\* (terminal_server.py:55-56): an object schema with one titled property
RunCommandSchema ==
    Dict(("title" :> Str("run_commandArguments")) @@ ("type" :> Str("object"))
         @@ ("properties" :>
                Dict("command" :> Dict(("title" :> Str("Command"))
                                       @@ ("type" :> Str("string"))))))

\* and for create_file(filename: str, content: str) (terminal_server.py:83-84)
CreateFileSchema ==
    Dict(("title" :> Str("create_fileArguments")) @@ ("type" :> Str("object"))
         @@ ("properties" :>
                Dict(("filename" :> Dict(("title" :> Str("Filename"))
                                         @@ ("type" :> Str("string"))))
                     @@ ("content" :> Dict(("title" :> Str("Content"))
                                           @@ ("type" :> Str("string")))))))

RunCommandTool == ToolDescriptor("run_command", "Run a terminal command", RunCommandSchema)
CreateFileTool == ToolDescriptor("create_file", "Create a file", CreateFileSchema)

\* tool lists of 0..MaxTools descriptors: the server's run_command n-1 times,
\* then one tool with a schema of the bounded set
TranslateInputs ==
    {<<>>} \cup
    {[i \in 1..n |-> IF i < n THEN RunCommandTool
                     ELSE ToolDescriptor("create_file", "doc", s)] :
        n \in 1..MaxTools, s \in Schemas(MaxDepth)}

idleTurn ==
    /\ turn = 0 /\ query = <<>> /\ response = <<>> /\ candidates = <<>>
    /\ ci = 0 /\ pi = 0 /\ function_response = EmptyMap /\ final_text = <<>>
    /\ trace = <<>> /\ responses = <<>> /\ outcome = [kind |-> "none"]

(***************************************************************************)
(* SpecTranslate: convert_mcp_tools_to_gemini on a fetched tool list.      *)
(***************************************************************************)
InitTranslate ==
    /\ pc = "translate"
    /\ client = TRUE /\ exit_stack = <<>> /\ open = {} /\ cleanups = 0
    /\ mcp_tools \in TranslateInputs
    /\ fetched_tools = mcp_tools
    /\ function_declarations = <<>>
    /\ idleTurn

\* client.py:85 on the freshly fetched descriptors
Translate ==
    /\ pc = "translate"
    /\ function_declarations' = convert_mcp_tools_to_gemini(mcp_tools)
    /\ mcp_tools' = ToolsAfterConvert(mcp_tools)
    /\ pc' = "translated"
    /\ UNCHANGED <<connVars, fetched_tools, turnVars>>

\* the same call on descriptors that were translated before
TranslateAgain ==
    /\ pc = "translated"
    /\ function_declarations' = convert_mcp_tools_to_gemini(mcp_tools)
    /\ mcp_tools' = ToolsAfterConvert(mcp_tools)
    /\ pc' = "translated_twice"
    /\ UNCHANGED <<connVars, fetched_tools, turnVars>>

NextTranslate == Translate \/ TranslateAgain

SpecTranslate == InitTranslate /\ [][NextTranslate]_vars

(***************************************************************************)
(* Text, parts, responses.                                                 *)
(***************************************************************************)
None == <<>>
Some(x) == <<x>>

\* str.lower() on the characters the queries are written with
LowerChar(c) ==
    CASE c = "Q" -> "q" [] c = "U" -> "u" [] c = "I" -> "i" [] c = "T" -> "t"
      [] OTHER -> c
Lower(str) == [i \in 1..Len(str) |-> LowerChar(str[i])]

\* sep.join(list) (client.py:159)
RECURSIVE Join(_, _)
Join(list, sep) ==
    IF list = <<>> THEN <<>>
    ELSE IF Len(list) = 1 THEN list[1]
    ELSE list[1] \o sep \o Join(Tail(list), sep)

Newline == <<"\n">>

\* types.Part: a text part, a function-call part
TextPart(text) == [text |-> Some(text), function_call |-> None]
FunctionCallPart(name, args) ==
    [text |-> None, function_call |-> Some([name |-> name, args |-> args])]
Candidate(parts) == [content |-> [parts |-> parts]]

\* the parts the first response is built from
FirstParts ==
    {TextPart(<<"a">>), TextPart(<<"b">>),
     FunctionCallPart("run_command", [command |-> "ls"]),
     FunctionCallPart("create_file", [filename |-> "notes.txt", content |-> "hello"])}

\* responses of at most c candidates holding at most p parts in all
RECURSIVE ResponsesUpTo(_, _)
ResponsesUpTo(c, p) ==
    IF c = 0 THEN {<<>>}
    ELSE {<<>>} \cup
         UNION {{<<Candidate(ps)>> \o r :
                    ps \in [1..k -> FirstParts], r \in ResponsesUpTo(c - 1, p - k)} :
                k \in 0..p}

FirstResponses == ResponsesUpTo(MaxCandidates, MaxParts)

\* the shapes of a follow-up response: no candidate; a candidate without
\* parts; a text first; a function call first; more than one candidate
FollowUpResponses ==
    {<<>>,
     <<Candidate(<<>>)>>,
     <<Candidate(<<TextPart(<<"c">>), TextPart(<<"d">>)>>)>>,
     <<Candidate(<<FunctionCallPart("run_command", [command |-> "pwd"]),
                   TextPart(<<"d">>)>>)>>,
     <<Candidate(<<TextPart(<<"d">>)>>), Candidate(<<TextPart(<<"c">>)>>)>>}

\* what session.call_tool does: returns a result, or raises an Exception
ToolOutcomes ==
    {[kind |-> "return", content |-> <<"o", "k">>],
     [kind |-> "raise", message |-> <<"b", "o", "o", "m">>]}

\* what Prompt.ask returns
Queries ==
    {<<"l", "s">>, <<"p", "w", "d">>, <<"q", "u", "i", "t">>, <<"Q", "u", "i", "t">>}

\* what list_tools returns: the two tools of the terminal server
ToolLists == {<<RunCommandTool, CreateFileTool>>}

(***************************************************************************)
(* main(): construction and connect_to_server.                             *)
(***************************************************************************)
Init ==
    /\ pc = "main"
    /\ client = FALSE /\ exit_stack = <<>> /\ open = {} /\ cleanups = 0
    /\ mcp_tools = <<>> /\ fetched_tools = <<>> /\ function_declarations = <<>>
    /\ idleTurn

\* client.py:219-221: no server script on the command line, sys.exit(1)
MainUsage ==
    /\ pc = "main"
    /\ pc' = "exited"
    /\ UNCHANGED <<connVars, toolVars, turnVars>>

\* client.py:48-51: MCPClient() with no GEMINI_API_KEY, sys.exit(1) before
\* `client` is bound and before the try block is entered
NoApiKey ==
    /\ pc = "main"
    /\ pc' = "exited"
    /\ UNCHANGED <<connVars, toolVars, turnVars>>

\* client.py:223, 42-54: the client object is created, the try block entered
NewClient ==
    /\ pc = "main"
    /\ client' = TRUE
    /\ pc' = "enter_stdio"
    /\ UNCHANGED <<exit_stack, open, cleanups, toolVars, turnVars>>

\* client.py:66: enter_async_context(stdio_client(...)); on failure nothing
\* is pushed and the exception leaves connect_to_server
EnterStdio ==
    /\ pc = "enter_stdio"
    /\ \/ /\ exit_stack' = Append(exit_stack, "stdio")
          /\ open' = open \cup {"stdio"}
          /\ pc' = "enter_session"
       \/ /\ pc' = "finally"
          /\ UNCHANGED <<exit_stack, open>>
    /\ UNCHANGED <<client, cleanups, toolVars, turnVars>>

\* client.py:70: enter_async_context(ClientSession(...))
EnterSession ==
    /\ pc = "enter_session"
    /\ \/ /\ exit_stack' = Append(exit_stack, "session")
          /\ open' = open \cup {"session"}
          /\ pc' = "initialize"
       \/ /\ pc' = "finally"
          /\ UNCHANGED <<exit_stack, open>>
    /\ UNCHANGED <<client, cleanups, toolVars, turnVars>>

\* client.py:73: session.initialize() returns or raises
Initialize ==
    /\ pc = "initialize"
    /\ pc' \in {"list_tools", "finally"}
    /\ UNCHANGED <<connVars, toolVars, turnVars>>

\* client.py:76-77: session.list_tools() returns the descriptors or raises
ListTools ==
    /\ pc = "list_tools"
    /\ \/ /\ \E tools \in ToolLists :
                /\ mcp_tools' = tools
                /\ fetched_tools' = tools
          /\ pc' = "convert"
       \/ /\ pc' = "finally"
          /\ UNCHANGED <<mcp_tools, fetched_tools>>
    /\ UNCHANGED <<connVars, function_declarations, turnVars>>

\* client.py:85: self.function_declarations = convert_mcp_tools_to_gemini(tools)
ConvertTools ==
    /\ pc = "convert"
    /\ function_declarations' = convert_mcp_tools_to_gemini(mcp_tools)
    /\ mcp_tools' = ToolsAfterConvert(mcp_tools)
    /\ pc' = "prompt"
    /\ UNCHANGED <<connVars, fetched_tools, turnVars>>

\* a teardown that exits the last context only
CloseLastOnly(stack, opened) ==
    IF stack = <<>> THEN opened ELSE opened \ {stack[Len(stack)]}

\* AsyncExitStack.aclose(): every context entered is exited, last one first
RECURSIVE CloseAll(_, _)
CloseAll(stack, opened) ==
    IF stack = <<>> THEN opened
    ELSE CloseAll(SubSeq(stack, 1, Len(stack) - 1), opened \ {stack[Len(stack)]})

\* client.py:227-228, 181-183: the finally block of main()
cleanup ==
    /\ pc = "finally"
    /\ open' = CloseAll(exit_stack, open)
    /\ exit_stack' = <<>>
    /\ cleanups' = cleanups + 1
    /\ pc' = "exited"
    /\ UNCHANGED <<client, toolVars, turnVars>>

(***************************************************************************)
(* chat_loop and process_query.                                            *)
(***************************************************************************)
\* client.py:91-94
user_prompt_content(q) == [role |-> "user", parts |-> <<TextPart(q)>>]

\* client.py:128-136
function_response_content(tool_name, payload) ==
    [role |-> "tool",
     parts |-> <<[function_response |-> [name |-> tool_name, response |-> payload]]>>]

\* one generate_content call: its contents and the tools of its config
GenerateCall(contents) ==
    [call |-> "generate_content", contents |-> contents,
     tools |-> function_declarations]

\* a first call that also carries one message for every earlier turn
FirstContentsWithHistory(q) == [i \in 1..turn |-> user_prompt_content(q)]

\* client.py:98-104: the contents of the first call of a turn
FirstContents(q) == <<user_prompt_content(q)>>

\* a follow-up call that leaves the user prompt out
FollowUpContentsNoPrompt(q, part, payload) ==
    <<part, function_response_content(part.function_call[1].name, payload)>>

\* client.py:141-145: the contents of the call that follows a tool call
FollowUpContents(q, part, payload) ==
    <<user_prompt_content(q), part,
      function_response_content(part.function_call[1].name, payload)>>

\* client.py:113: `if part.function_call:`
HasFunctionCall(part) == part.function_call # None

\* a payload that reports every exception with the same fixed message
FunctionResponseFixedMessage(result) ==
    IF result.kind = "return"
    THEN "result" :> result.content
    ELSE "error" :> <<"e", "r", "r", "o", "r">>

\* client.py:123-125: the payload built from what call_tool did
FunctionResponse(result) ==
    IF result.kind = "return"
    THEN "result" :> result.content
    ELSE "error" :> result.message

\* fragments collected at the front of the list instead of the end
PrependText(list, part) ==
    IF part.text # None THEN <<part.text[1]>> \o list ELSE list

\* client.py:152-153, 156-157: `if text_part is not None: final_text.append(...)`
AppendText(list, part) ==
    IF part.text # None THEN Append(list, part.text[1]) ELSE list

Parts(cands, c) == cands[c].content.parts

\* client.py:109-111: the position of the next part the two for-loops reach
\* after position <<c, p>>; a candidate without parts is skipped (line 110)
RECURSIVE NextPos(_, _, _)
NextPos(cands, c, p) ==
    IF c > Len(cands) THEN <<c, 0>>
    ELSE IF p < Len(Parts(cands, c)) THEN <<c, p + 1>>
    ELSE NextPos(cands, c + 1, 0)

AtEnd == ci > Len(candidates)
CurrentPart == Parts(candidates, ci)[pi]

\* client.py:167: Prompt.ask is interrupted (EOF, Ctrl-C)
PromptInterrupted ==
    /\ pc = "prompt"
    /\ pc' = "finally"
    /\ UNCHANGED <<connVars, toolVars, turnVars>>

\* client.py:167-172: a line is read; 'quit' in any case leaves the loop,
\* anything else starts process_query
AskQuery ==
    /\ pc = "prompt"
    /\ \E q \in Queries :
          IF Lower(q) = <<"q", "u", "i", "t">>
          THEN /\ pc' = "finally"
               /\ UNCHANGED turnVars
          ELSE /\ turn < MaxTurns
               /\ turn' = turn + 1
               /\ query' = q
               /\ response' = <<>> /\ candidates' = <<>>
               /\ ci' = 0 /\ pi' = 0
               /\ function_response' = EmptyMap
               /\ final_text' = <<>>
               /\ trace' = <<>> /\ responses' = <<>>
               /\ outcome' = [kind |-> "none"]
               /\ pc' = "generate"
    /\ UNCHANGED <<connVars, toolVars>>

\* client.py:96-109: the first generate_content call; final_text = [] and
\* the for-loops start on the candidates of this response
FirstGenerate ==
    /\ pc = "generate"
    /\ \E r \in FirstResponses :
          /\ response' = r
          /\ candidates' = r
          /\ responses' = Append(responses, r)
          /\ ci' = NextPos(r, 1, 0)[1]
          /\ pi' = NextPos(r, 1, 0)[2]
    /\ trace' = Append(trace, GenerateCall(FirstContents(query)))
    /\ final_text' = <<>>
    /\ pc' = "loop"
    /\ UNCHANGED <<connVars, toolVars, turn, query, function_response, outcome>>

\* client.py:154-157: a part without a function call
TextStep ==
    /\ pc = "loop" /\ ~AtEnd
    /\ ~HasFunctionCall(CurrentPart)
    /\ final_text' = AppendText(final_text, CurrentPart)
    /\ ci' = NextPos(candidates, ci, pi)[1]
    /\ pi' = NextPos(candidates, ci, pi)[2]
    /\ UNCHANGED <<pc, connVars, toolVars, turn, query, response, candidates,
                   function_response, trace, responses, outcome>>

\* client.py:113-125: a part with a function call: session.call_tool is
\* awaited and its result or its exception becomes the payload
CallTool ==
    /\ pc = "loop" /\ ~AtEnd
    /\ HasFunctionCall(CurrentPart)
    /\ \E result \in ToolOutcomes :
          /\ function_response' = FunctionResponse(result)
          /\ trace' = Append(trace,
                 [call |-> "call_tool",
                  name |-> CurrentPart.function_call[1].name,
                  args |-> CurrentPart.function_call[1].args,
                  outcome |-> result])
    /\ pc' = "tool_done"
    /\ UNCHANGED <<connVars, toolVars, turn, query, response, candidates, ci, pi,
                   final_text, responses, outcome>>

\* the last part of the first candidate instead of the first
FollowUpLastPart(r) == Parts(r, 1)[Len(Parts(r, 1))]

\* client.py:151: response.candidates[0].content.parts[0]
FollowUpPart(r) == Parts(r, 1)[1]

\* a turn that chains tool calls: when the follow-up response asks for a tool,
\* the loops stay on the same part and call the tool again
AfterFollowUpChained(r) ==
    IF r = <<>> \/ Parts(r, 1) = <<>>
    THEN /\ outcome' = [kind |-> "raised", error |-> "IndexError"]
         /\ pc' = "finally"
         /\ UNCHANGED <<final_text, ci, pi>>
    ELSE IF Parts(r, 1)[1].function_call # None
    THEN /\ pc' = "loop"
         /\ UNCHANGED <<final_text, ci, pi, outcome>>
    ELSE /\ final_text' = AppendText(final_text, Parts(r, 1)[1])
         /\ ci' = NextPos(candidates, ci, pi)[1]
         /\ pi' = NextPos(candidates, ci, pi)[2]
         /\ pc' = "loop"
         /\ UNCHANGED outcome

\* client.py:151-153 and the continuation of the for-loops: indexing an empty
\* candidate list or an empty part list raises IndexError, which leaves
\* process_query and chat_loop; otherwise the text of that one part, if it
\* has one, is appended and the loops go on with the next part of the FIRST
\* response
AfterFollowUp(r) ==
    IF r = <<>> \/ Parts(r, 1) = <<>>
    THEN /\ outcome' = [kind |-> "raised", error |-> "IndexError"]
         /\ pc' = "finally"
         /\ UNCHANGED <<final_text, ci, pi>>
    ELSE /\ final_text' = AppendText(final_text, FollowUpPart(r))
         /\ ci' = NextPos(candidates, ci, pi)[1]
         /\ pi' = NextPos(candidates, ci, pi)[2]
         /\ pc' = "loop"
         /\ UNCHANGED outcome

\* client.py:127-153: the payload is sent back in a second generate_content
\* call and `response` is rebound to its answer
SecondGenerate ==
    /\ pc = "tool_done"
    /\ trace' = Append(trace,
           GenerateCall(FollowUpContents(query, CurrentPart, function_response)))
    /\ \E r \in FollowUpResponses :
          /\ response' = r
          /\ responses' = Append(responses, r)
          /\ AfterFollowUp(r)
    /\ UNCHANGED <<connVars, toolVars, turn, query, candidates, function_response>>

\* client.py:159, 172-179: the loops are over; the joined text is returned
\* to chat_loop, which prints it and prompts again
ReturnText ==
    /\ pc = "loop" /\ AtEnd
    /\ outcome' = [kind |-> "returned", text |-> Join(final_text, Newline)]
    /\ pc' = "prompt"
    /\ UNCHANGED <<connVars, toolVars, turn, query, response, candidates, ci, pi,
                   function_response, final_text, trace, responses>>

Next ==
    \/ MainUsage \/ NoApiKey \/ NewClient
    \/ EnterStdio \/ EnterSession \/ Initialize \/ ListTools \/ ConvertTools
    \/ PromptInterrupted \/ AskQuery
    \/ FirstGenerate \/ TextStep \/ CallTool \/ SecondGenerate \/ ReturnText
    \/ cleanup

Spec == Init /\ [][Next]_vars

(***************************************************************************)
(* Properties of a turn (Spec).                                            *)
(***************************************************************************)
IsGenerate(e) == e.call = "generate_content"
IsToolCall(e) == e.call = "call_tool"
LLMCalls == Cardinality({i \in DOMAIN trace : IsGenerate(trace[i])})
ToolCalls == Cardinality({i \in DOMAIN trace : IsToolCall(trace[i])})

\* the parts of a response in emission order: candidate order, then part order
RECURSIVE FlatParts(_)
FlatParts(cands) ==
    IF cands = <<>> THEN <<>>
    ELSE cands[1].content.parts \o FlatParts(Tail(cands))

IsCallPart(part) == part.function_call # <<>>
CallParts(cands) == SelectSeq(FlatParts(cands), IsCallPart)
FunctionCallCount == Len(CallParts(candidates))

TurnStarted == trace # <<>>
TurnReturned == outcome.kind = "returned"
TurnRaised == outcome.kind = "raised"
TurnEnded == TurnReturned \/ TurnRaised

\* the first part of the first candidate of a response is a function call
AsksForTool(r) ==
    r # <<>> /\ r[1].content.parts # <<>> /\ IsCallPart(r[1].content.parts[1])

C2_OnlySecondResponseText ==
    (TurnReturned /\ FunctionCallCount >= 1) =>
        outcome.text = Join(responses[2][1].content.parts[1].text, Newline)

\* the fragments a returned turn is due: a text part gives its text, a
\* function-call part the text (if any) of the first part of the first
\* candidate of the response to its follow-up call
RECURSIVE Fragments(_, _)
Fragments(parts, followups) ==
    IF parts = <<>> THEN <<>>
    ELSE IF IsCallPart(parts[1])
    THEN followups[1][1].content.parts[1].text
         \o Fragments(Tail(parts), Tail(followups))
    ELSE parts[1].text \o Fragments(Tail(parts), followups)

\* C2 as amended: the returned string is the newline-join, in part order, of
\* the text parts of the first response and, for each function-call part, the
\* text of the first part of the first candidate of that call's follow-up
\* response.
C2_TextOfBothResponses ==
    (TurnReturned /\ FunctionCallCount >= 1) =>
        /\ Len(responses) = 1 + FunctionCallCount
        /\ outcome.text =
              Join(Fragments(FlatParts(candidates), Tail(responses)), Newline)

C2_Witness ==
    /\ TurnReturned
    /\ FunctionCallCount = 1
    /\ \E i \in 1..Len(FlatParts(candidates)) : FlatParts(candidates)[i].text # <<>>
    /\ Len(responses[2][1].content.parts) = 2
    /\ Len(final_text) = 2

\* C3: with exactly one function-call part in the first response, the turn
\* issues an LLM call, then one call_tool with that call's name and
\* arguments, then a second LLM call whose contents are the user prompt, the
\* function-call part and the tool-result message, with the first call's tools.
C3_OneToolCallBetweenTwoLLMCalls ==
    (TurnEnded /\ FunctionCallCount = 1) =>
        LET fc == CallParts(candidates)[1] IN
        /\ Len(trace) = 3
        /\ IsGenerate(trace[1]) /\ IsToolCall(trace[2]) /\ IsGenerate(trace[3])
        /\ trace[2].name = fc.function_call[1].name
        /\ trace[2].args = fc.function_call[1].args
        /\ Len(trace[3].contents) = 3
        /\ trace[3].contents[1] = [role |-> "user", parts |-> <<TextPart(query)>>]
        /\ trace[3].contents[2] = fc
        /\ trace[3].contents[3].role = "tool"
        /\ trace[3].contents[3].parts[1].function_response.name
              = fc.function_call[1].name
        /\ trace[3].tools = trace[1].tools
        /\ trace[1].tools = function_declarations

C3_Witness ==
    /\ TurnReturned
    /\ FunctionCallCount = 1
    /\ Len(FlatParts(candidates)) = 2
    /\ trace[2].outcome.kind = "return"

\* C4: a first response of text parts only gives exactly one LLM call, no
\* tool call, and the texts joined by newlines in candidate order, then part
\* order.  (The texts of FirstParts are one character long, so fragment i
\* sits at position 2i-1 of the joined string and a newline at every 2i.)
C4_TextOnlyTurn ==
    (TurnStarted /\ FunctionCallCount = 0) =>
        /\ Len(trace) = 1 /\ IsGenerate(trace[1])
        /\ ~TurnRaised
        /\ TurnReturned =>
              LET texts == FlatParts(candidates) IN
              /\ Len(final_text) = Len(texts)
              /\ \A i \in 1..Len(texts) : final_text[i] = texts[i].text[1]
              /\ outcome.text = Join(final_text, Newline)
              /\ Len(outcome.text) =
                    IF texts = <<>> THEN 0 ELSE 2 * Len(texts) - 1
              /\ \A i \in 1..Len(texts) : outcome.text[2 * i - 1] = texts[i].text[1][1]
              /\ \A i \in 1..(Len(texts) - 1) : outcome.text[2 * i] = "\n"

C4_Witness ==
    /\ TurnReturned
    /\ Len(candidates) = 2
    /\ outcome.text = <<"b", "\n", "a">>

\* C5: when call_tool raises, the payload is the failure variant alone, with
\* the string of the exception; the exception does not end the turn, and the
\* next call is the second LLM call, carrying that payload as the tool result.
C5_ToolExceptionContained ==
    \A i \in DOMAIN trace :
        (IsToolCall(trace[i]) /\ trace[i].outcome.kind = "raise") =>
            LET failure == "error" :> trace[i].outcome.message IN
            IF i = Len(trace)
            THEN /\ pc = "tool_done"
                 /\ ~TurnRaised
                 /\ function_response = failure
                 /\ DOMAIN function_response = {"error"}
                 /\ ENABLED SecondGenerate
            ELSE /\ IsGenerate(trace[i + 1])
                 /\ trace[i + 1].contents[3].role = "tool"
                 /\ trace[i + 1].contents[3].parts[1].function_response.response
                       = failure

C5_Witness ==
    /\ TurnReturned
    /\ \E i \in DOMAIN trace : IsToolCall(trace[i]) /\ trace[i].outcome.kind = "raise"

\* C6: a turn that produces no text fragment returns the empty string and
\* raises no error, also when the second response has no text part, no parts
\* or no candidates.
C6_NoFragmentGivesEmptyString ==
    (TurnEnded /\ final_text = <<>>) =>
        /\ TurnReturned
        /\ outcome.text = <<>>

\* what does hold: unless line 151 raised, no fragment gives the empty string
NoFragmentGivesEmptyStringUnlessRaised ==
    (TurnReturned /\ final_text = <<>>) => outcome.text = <<>>

\* C9: once the client object exists, teardown runs exactly once before the
\* process ends, however the run ends, and leaves no resource open.
C9_TeardownOnce ==
    /\ cleanups <= 1
    /\ cleanups = 1 => client
    /\ (client /\ pc = "exited") =>
          /\ cleanups = 1
          /\ open = {}
          /\ exit_stack = <<>>
    /\ open = {r \in {"stdio", "session"} : \E i \in DOMAIN exit_stack : exit_stack[i] = r}

C9_Witness ==
    /\ pc = "exited"
    /\ cleanups = 1
    /\ TurnRaised
    /\ open = {}

C9_WitnessConnectFails ==
    pc = "finally" /\ open = {"stdio"} /\ function_declarations = <<>>

\* C10: a turn never modifies the registered tool set, and the first LLM call
\* of every turn is given that turn's query alone.
C10_FirstCallFromQueryAlone ==
    TurnStarted =>
        /\ IsGenerate(trace[1])
        /\ trace[1].contents = <<[role |-> "user", parts |-> <<TextPart(query)>>]>>
        /\ trace[1].tools = function_declarations

C10_TurnsKeepToolSet ==
    [][(pc \in {"prompt", "generate", "loop", "tool_done"}) =>
          function_declarations' = function_declarations]_vars

C10_NoStateAcrossTurns == []C10_FirstCallFromQueryAlone /\ C10_TurnsKeepToolSet

C10_Witness ==
    /\ turn = 2
    /\ TurnReturned
    /\ Len(trace) >= 3
    /\ query = <<"p", "w", "d">>

(***************************************************************************)
(* Properties of the translation (SpecTranslate).                          *)
(***************************************************************************)
\* "properties" maps property names to schemas: its keys are names, and a
\* property may itself be called "title"
IsPropertiesMap(x, k) == k = "properties" /\ IsDict(x.map[k])

\* the schema x, or a schema nested in it at any depth, has a "title" key
RECURSIVE TitleWithin(_)
TitleWithin(x) ==
    /\ IsDict(x)
    /\ \/ "title" \in DOMAIN x.map
       \/ \E k \in DOMAIN x.map :
             IF IsPropertiesMap(x, k)
             THEN \E p \in DOMAIN x.map[k].map : TitleWithin(x.map[k].map[p])
             ELSE TitleWithin(x.map[k])

\* a schema "title" key occurs at some nesting depth under a "properties" key of x
RECURSIVE TitleUnderProperties(_)
TitleUnderProperties(x) ==
    /\ IsDict(x)
    /\ \E k \in DOMAIN x.map :
          IF IsPropertiesMap(x, k)
          THEN \E p \in DOMAIN x.map[k].map : TitleWithin(x.map[k].map[p])
          ELSE TitleUnderProperties(x.map[k])

\* new is old with nothing but schema "title" keys taken away
RECURSIVE KeptExceptTitle(_, _)
KeptExceptTitle(old, new) ==
    IF IsDict(old)
    THEN /\ IsDict(new)
         /\ DOMAIN new.map \subseteq DOMAIN old.map
         /\ \A k \in DOMAIN old.map \ {"title"} :
               /\ k \in DOMAIN new.map
               /\ IF IsPropertiesMap(old, k)
                  THEN /\ IsDict(new.map[k])
                       /\ DOMAIN new.map[k].map = DOMAIN old.map[k].map
                       /\ \A p \in DOMAIN old.map[k].map :
                             KeptExceptTitle(old.map[k].map[p], new.map[k].map[p])
                  ELSE KeptExceptTitle(old.map[k], new.map[k])
    ELSE new = old

\* the "title" keys clean_schema is written to reach: the schema's own, and
\* those of the property schemas found by following "properties" dicts only
RECURSIVE TitleOnPropertiesChain(_)
TitleOnPropertiesChain(x) ==
    /\ IsDict(x)
    /\ \/ "title" \in DOMAIN x.map
       \/ /\ "properties" \in DOMAIN x.map
          /\ IsDict(x.map["properties"])
          /\ \E k \in DOMAIN x.map["properties"].map :
                TitleOnPropertiesChain(x.map["properties"].map[k])

Parameters(i) == function_declarations[i].function_declarations[1].parameters

\* C7: clean_schema removes every "title" key at any nesting depth under
\* "properties" and at the top level, keeps every other key and value, and is
\* idempotent.
C7_CleanSchemaRemovesEveryTitle ==
    pc = "translated" =>
        \A i \in 1..Len(fetched_tools) :
            LET x == fetched_tools[i].inputSchema
                y == Parameters(i)
            IN  /\ IsDict(y) => "title" \notin DOMAIN y.map
                /\ ~TitleUnderProperties(y)
                /\ KeptExceptTitle(x, y)
                /\ clean_schema(y) = y

\* what does hold of clean_schema: no "title" is left on the chain of
\* "properties" dicts, only "title" keys are removed, the result is a fixed
\* point, and a non-mapping schema is passed through
CleanSchemaOnPropertiesChain ==
    pc = "translated" =>
        \A i \in 1..Len(fetched_tools) :
            LET x == fetched_tools[i].inputSchema
                y == Parameters(i)
            IN  /\ ~TitleOnPropertiesChain(y)
                /\ KeptExceptTitle(x, y)
                /\ clean_schema(y) = y
                /\ ~IsDict(x) => y = x

\* translating the translated descriptors again changes nothing
TranslateAgainIsNoOp ==
    [][pc = "translated" =>
          /\ function_declarations' = function_declarations
          /\ mcp_tools' = mcp_tools]_vars

\* C8: convert_mcp_tools_to_gemini has no side effects: every ToolDescriptor
\* passed to it is, after the call, equal to what it was before the call.
C8_TranslationLeavesDescriptorsUnchanged ==
    pc = "translated" => mcp_tools = fetched_tools

====
